---- MODULE Spec2Model ----
(***************************************************************************)
(* Model of the orchestration engine of keep-agent-running:                *)
(*   - MockProjectRuntime (mock_implementations.py) driven by              *)
(*     RuntimeEngine.start (protocols.py): the task queue, the execution   *)
(*     graph, the router, the verifier, the situation and the loop         *)
(*     detector;                                                           *)
(*   - MockConvergenceManager.should_terminate as a pure function, under   *)
(*     its own specification SpecConv.                                     *)
(* Python objects are modelled by reference: objs is the heap of MockTask  *)
(* objects in creation order, and the queue and the graph hold indices     *)
(* into it, so that two task objects with the same id stay distinct.       *)
(***************************************************************************)
EXTENDS Integers, Sequences, FiniteSets, TLC

VARIABLES
    pc,                 \* position of RuntimeEngine.start / execute_task_loop
    objs,               \* heap of MockTask objects, in creation order
    tasks,              \* RuntimeEngine.tasks: queue of references into objs
    execution_graph,    \* MockTreeStructure: tasks, execution_path, parent_child
    current_situation,  \* RuntimeEngine.current_situation
    artifacts_generated,\* RuntimeEngine.artifacts_generated
    state_history,      \* MockLoopDetector.state_history
    iteration,          \* local of execute_task_loop
    current_task,       \* local of execute_task_loop (reference, 0 before the first pop)
    handler,            \* local of execute_task_loop (what route_task returned)
    clock,              \* datetime.now() - start_time, in whole seconds
    stop_criteria,      \* RuntimeEngine.stop_criteria (a dict: keys may be absent)
    max_tree_depth,     \* settings.execution.max_tree_depth
    strategy,           \* settings.execution.strategy
    max_parallel_agents,\* settings.resources.max_parallel_agents
    ves_models,         \* RuntimeEngine.ves_models
    expert_allowed,     \* RuntimeEngine.expert_allowed
    final_results,      \* what finalize returned
    verdict,            \* per task object: what the engine saw when it executed it
    cm_in,              \* should_terminate's arguments (SpecConv)
    cm_out,             \* the values should_terminate returned (SpecConv)
    cm_results,         \* what each call so far returned, in call order (SpecConv)
    ld_recorded,        \* snapshots passed to record_state since the last reset (SpecLoop)
    ld_out,             \* the value is_loop_detected returned, until the next call (SpecLoop)
    ld_last_reset,      \* what is_loop_detected held when reset was last called (SpecLoop)
    rt_in,              \* route_task's arguments (SpecRoute)
    rt_out,             \* the value route_task returned (SpecRoute)
    human_call,         \* a call of HumanTaskHandler.handle (SpecHuman)
    tool_call,          \* a call of ToolCallTaskHandler.handle (SpecTool)
    project_run         \* a call of run_project (SpecProject)

vars == <<pc, objs, tasks, execution_graph, current_situation,
          artifacts_generated, state_history, iteration, current_task,
          handler, clock, stop_criteria, max_tree_depth, strategy, max_parallel_agents, ves_models,
          expert_allowed, final_results, verdict, cm_in, cm_out, cm_results,
          ld_recorded, ld_out, ld_last_reset, rt_in, rt_out,
          human_call, tool_call, project_run>>

engine_vars == <<pc, objs, tasks, execution_graph, current_situation,
                 artifacts_generated, state_history, iteration, current_task,
                 handler, clock, stop_criteria, max_tree_depth, strategy, max_parallel_agents, ves_models,
                 expert_allowed, final_results, verdict>>

conv_vars == <<cm_in, cm_out, cm_results>>

loop_vars == <<ld_recorded, ld_out, ld_last_reset>>

route_vars == <<rt_in, rt_out>>

\* models/handlers.py and project_runtime.py
handlers_vars == <<human_call, tool_call, project_run>>

\* the engine's state apart from its loop detector
engine_rest == <<pc, objs, tasks, execution_graph, current_situation,
                 artifacts_generated, iteration, current_task, handler, clock,
                 stop_criteria, max_tree_depth, strategy, max_parallel_agents, ves_models, expert_allowed,
                 final_results, verdict>>

----------------------------------------------------------------------------
(* Bounds of the model *)

\* task objects up to which a handler other than the mocks proposes new tasks
MaxTasks == 4
\* new_tasks a single TaskResult of such a handler proposes
MaxNew == 1
\* artifacts a single TaskResult of such a handler carries
MaxArtifacts == 1
\* seconds the wall clock advances during a run
MaxClock == 2

(* Program constants *)

\* "max_iterations = 10  # Safety limit for demo"
max_iterations == 10
\* runtime_config.get("token_limit", 1000000)
DEFAULT_TOKEN_LIMIT == 1000000
\* runtime_config.get("time_limit", 3600)
DEFAULT_TIME_LIMIT == 3600
\* total_tokens_used += 1000
TOKENS_PER_UPDATE == 1000
\* MockLoopDetector.max_history
max_history == 20

----------------------------------------------------------------------------
(* protocols.py: TaskStatus *)

PENDING == "pending"
IN_PROGRESS == "in_progress"
COMPLETED == "completed"
FAILED == "failed"
CANCELLED == "cancelled"

TaskStatus == {PENDING, IN_PROGRESS, COMPLETED, FAILED, CANCELLED}

\* Optional[str] = None, for ids and references
None == 0

\* None where the code otherwise holds an object (a Situation, a dict)
NoneObject == [is_none |-> TRUE]

Max(S) == CHOOSE x \in S : \A y \in S : y <= x

\* dict.get(key, default)
DictGet(d, key, default) == IF key \in DOMAIN d THEN d[key] ELSE default

\* dict[key] = value
DictSet(d, key, value) ==
    [k \in (DOMAIN d) \cup {key} |-> IF k = key THEN value ELSE d[k]]

----------------------------------------------------------------------------
(* MockTask *)

\* MockTask(...): status defaults to PENDING
\* needs_human: "review" or "critical" is in the description;
\* complex: "complex" is in the description
MockTask(id, parent, deps, human, complex) ==
    [id |-> id, status |-> PENDING, parent_task_id |-> parent,
     dependencies |-> deps, needs_human |-> human, complex |-> complex]

\* MockTask.can_execute
can_execute(t) == t.status = PENDING /\ t.dependencies = {}

\* MockTask.update_status: unconditional assignment
update_status(heap, ref, status) == [heap EXCEPT ![ref].status = status]

----------------------------------------------------------------------------
(* MockConvergenceManager *)

\* should_terminate with the queue criterion not asking for a completed task
should_terminate_NoCompletedCheck(situation, runtime_config) ==
    LET token_limit == DictGet(runtime_config, "token_limit", DEFAULT_TOKEN_LIMIT)
        time_limit == DictGet(runtime_config, "time_limit", DEFAULT_TIME_LIMIT)
    IN  \/ situation.total_tokens_used > token_limit
        \/ situation.execution_time > time_limit
        \/ situation.current_task_count = 0

\* should_terminate with >= in place of > on the two budgets
should_terminate_AtLimit(situation, runtime_config) ==
    LET token_limit == DictGet(runtime_config, "token_limit", DEFAULT_TOKEN_LIMIT)
        time_limit == DictGet(runtime_config, "time_limit", DEFAULT_TIME_LIMIT)
    IN  \/ situation.total_tokens_used >= token_limit
        \/ situation.execution_time >= time_limit
        \/ (situation.current_task_count = 0 /\ situation.completed_tasks > 0)

\* should_terminate returns one value, a bool
should_terminate(situation, runtime_config) ==
    LET token_limit == DictGet(runtime_config, "token_limit", DEFAULT_TOKEN_LIMIT)
        time_limit == DictGet(runtime_config, "time_limit", DEFAULT_TIME_LIMIT)
    IN  \/ situation.total_tokens_used > token_limit
        \/ situation.execution_time > time_limit
        \/ (situation.current_task_count = 0 /\ situation.completed_tasks > 0)

----------------------------------------------------------------------------
(* MockLoopDetector *)

\* list.count
Count(seq, x) == Cardinality({i \in 1..Len(seq) : seq[i] = x})

\* sorted() order of the keys a snapshot dict can have
KeyOrder == <<"completed", "failed", "task_count">>

\* str(sorted(state_snapshot.items())): the (key, value) pairs in key order
state_str(state_snapshot) ==
    LET keys == SelectSeq(KeyOrder, LAMBDA k : k \in DOMAIN state_snapshot)
    IN  [i \in 1..Len(keys) |-> <<keys[i], state_snapshot[keys[i]]>>]

\* record_state evicting as soon as the buffer is full
record_state_EvictAtCapacity(history, snapshot) ==
    LET appended == Append(history, state_str(snapshot))
    IN  IF Len(appended) >= max_history THEN Tail(appended) ELSE appended

\* record_state: append the serialized snapshot, pop(0) when over max_history
record_state(history, snapshot) ==
    LET appended == Append(history, state_str(snapshot))
    IN  IF Len(appended) > max_history THEN Tail(appended) ELSE appended

\* is_loop_detected answering at the second occurrence
is_loop_detected_Twice(history) ==
    IF Len(history) < 3 THEN FALSE
    ELSE Count(history, history[Len(history)]) > 1

is_loop_detected(history) ==
    IF Len(history) < 3 THEN FALSE
    ELSE Count(history, history[Len(history)]) > 2

----------------------------------------------------------------------------
(* MockVerifier *)

\* the verifier accepting every successful result, with or without artifacts
verify_task_completion_SuccessOnly(result) == result.success

verify_task_completion(result) == result.success /\ result.nart > 0

----------------------------------------------------------------------------
(* MockTreeStructure *)

EmptyTree == [tasks |-> <<>>, execution_path |-> <<>>, parent_child |-> <<>>]

\* add_task: no check of the id, of the parent or of the depth
add_task(g, ref, t) ==
    [tasks |-> DictSet(g.tasks, t.id, ref),
     execution_path |-> Append(g.execution_path, t.id),
     parent_child |->
        IF t.parent_task_id # None
        THEN DictSet(g.parent_child, t.parent_task_id,
                     Append(DictGet(g.parent_child, t.parent_task_id, <<>>), t.id))
        ELSE g.parent_child]

\* for new_task in result.new_tasks: add_task(new_task), refs being consecutive
RECURSIVE add_tasks(_, _, _)
add_tasks(g, firstRef, ts) ==
    IF ts = <<>> THEN g
    ELSE add_tasks(add_task(g, firstRef, Head(ts)), firstRef + 1, Tail(ts))

\* get_tree_depth's inner get_depth; -1 stands for RecursionError (a cycle in
\* parent_child makes the recursion unbounded)
RECURSIVE get_depth(_, _, _)
get_depth(g, task_id, fuel) ==
    LET children == DictGet(g.parent_child, task_id, <<>>)
    IN  IF fuel = 0 THEN -1
        ELSE IF children = <<>> THEN 1
        ELSE LET ds == {get_depth(g, children[i], fuel - 1) : i \in 1..Len(children)}
             IN  IF -1 \in ds THEN -1 ELSE 1 + Max(ds)

get_tree_depth(g, heap) ==
    LET root_tasks == {tid \in DOMAIN g.tasks : heap[g.tasks[tid]].parent_task_id = None}
        ds == {get_depth(g, r, Len(heap) + 1) : r \in root_tasks}
    IN  IF root_tasks = {} THEN 0
        ELSE IF -1 \in ds THEN -1 ELSE Max(ds)

----------------------------------------------------------------------------
(* MockVE, MockUser, MockTaskRouter *)

\* MockVE.can_handle_task: load_factor is kept in tenths
ve_can_handle_task(ve, t) == ve.is_available /\ ve.load_factor < 9

\* MockUser.can_handle_task: "review" or "critical" in the description
user_can_handle_task(user, t) == user.is_available /\ t.needs_human

\* route_task: the first able user, else the first able VE, else None
route_task(t, available_ves, available_users) ==
    LET us == {i \in 1..Len(available_users) : user_can_handle_task(available_users[i], t)}
        vs == {i \in 1..Len(available_ves) : ve_can_handle_task(available_ves[i], t)}
        Min(S) == CHOOSE x \in S : \A y \in S : x <= y
    IN  IF us # {} THEN [kind |-> "user", index |-> Min(us)]
        ELSE IF vs # {} THEN [kind |-> "ve", index |-> Min(vs)]
        ELSE [kind |-> "none", index |-> 0]

NoHandler == [kind |-> "none", index |-> 0]

----------------------------------------------------------------------------
(* The inputs of a run: configuration and handler pools *)

\* A VirtualEnvironment: load_factor in tenths; mock tells a MockVE from any
\* other implementation of the protocol
VE(avail, load, mock) == [is_available |-> avail, load_factor |-> load, mock |-> mock]

\* A User: mock tells a MockUser from any other implementation of the protocol
User(avail, mock) == [is_available |-> avail, mock |-> mock]

\* A VirtualEnvironment that decomposes: for a parentless task whose
\* description holds "complex" its TaskResult proposes fan_out subtasks
Decomposer(avail, load, fan_out) ==
    [is_available |-> avail, load_factor |-> load, mock |-> FALSE, fan_out |-> fan_out]

IsDecomposer(ve) == "fan_out" \in DOMAIN ve

\* The runs explored: stop_criteria (a dict, any key may be missing: main.py
\* passes token_limit, time_limit and max_iterations), ves_models,
\* expert_allowed, and the settings execution.strategy (default "hybrid") and
\* resources.max_parallel_agents (default 5, gt=0, le=20)
Scenarios ==
    { \* main.py create_demo_runtime: default settings, three MockVE, three MockUser
      [stop_criteria |-> [token_limit |-> 1000000, time_limit |-> 3600,
                          max_iterations |-> 200],
       ves_models |-> <<VE(TRUE, 5, TRUE), VE(TRUE, 5, TRUE), VE(TRUE, 5, TRUE)>>,
       expert_allowed |-> <<User(TRUE, TRUE), User(TRUE, TRUE), User(TRUE, TRUE)>>,
       strategy |-> "hybrid", max_parallel_agents |-> 5],
      \* small budgets, an overloaded VE, an absent expert
      [stop_criteria |-> [token_limit |-> 2000, time_limit |-> 3600,
                          max_iterations |-> 2],
       ves_models |-> <<VE(TRUE, 9, FALSE), VE(TRUE, 5, FALSE)>>,
       expert_allowed |-> <<User(FALSE, FALSE), User(TRUE, FALSE)>>,
       strategy |-> "dfs", max_parallel_agents |-> 1],
      \* a short session, no VE able to take a task
      [stop_criteria |-> [token_limit |-> 1000000, time_limit |-> 1,
                          max_iterations |-> 200],
       ves_models |-> <<VE(FALSE, 5, FALSE), VE(TRUE, 9, FALSE)>>,
       expert_allowed |-> <<User(TRUE, FALSE)>>,
       strategy |-> "hybrid", max_parallel_agents |-> 20],
      \* default budgets (keys missing), one VE, no expert
      [stop_criteria |-> [max_iterations |-> 2],
       ves_models |-> <<VE(TRUE, 5, FALSE)>>,
       expert_allowed |-> <<>>,
       strategy |-> "hybrid", max_parallel_agents |-> 2],
      \* breadth-first, five agents, a VE that splits a complex task in five
      [stop_criteria |-> [token_limit |-> 1000000, time_limit |-> 3600,
                          max_iterations |-> 200],
       ves_models |-> <<Decomposer(TRUE, 5, 5)>>,
       expert_allowed |-> <<>>,
       strategy |-> "bfs", max_parallel_agents |-> 5],
      \* depth-first, a VE that splits a complex task in two
      [stop_criteria |-> [token_limit |-> 1000000, time_limit |-> 3600,
                          max_iterations |-> 200],
       ves_models |-> <<Decomposer(TRUE, 5, 2)>>,
       expert_allowed |-> <<>>,
       strategy |-> "dfs", max_parallel_agents |-> 5] }

\* VESettings.retry_attempts: its default (gt=0)
ve_retry_attempts == 3

\* ExecutionSettings.max_tree_depth (gt=0): the values a run is configured with
TreeDepthSet == {3}

----------------------------------------------------------------------------
(* What a handler call can produce *)

UsedIds(heap) == {heap[i].id : i \in 1..Len(heap)}

\* str(uuid.uuid4())[:8]: an id that no task object carries yet
FreshId(heap) == Max(UsedIds(heap) \cup {0}) + 1

\* What MockVE.execute_task returns for task c: success, one artifact, and a
\* subtask "Subtask of <c.description>" when "complex" is in the description
MockVE_execute_task(c, heap) ==
    [raised |-> FALSE, success |-> TRUE, nart |-> 1,
     new_tasks |-> IF c.complex
                   THEN <<MockTask(FreshId(heap), c.id, {}, c.needs_human, c.complex)>>
                   ELSE <<>>]

\* What a decomposing VE returns for task c: success, one artifact, and for
\* a parentless complex task fan_out plain subtasks with fresh ids
Decomposer_execute_task(ve, c, heap) ==
    [raised |-> FALSE, success |-> TRUE, nart |-> 1,
     new_tasks |-> IF c.complex /\ c.parent_task_id = None
                   THEN [i \in 1..ve.fan_out |->
                            MockTask(FreshId(heap) + i - 1, c.id, {}, FALSE, FALSE)]
                   ELSE <<>>]

\* What MockUser.handle_task returns: success, one artifact, no new task
MockUser_handle_task(c) ==
    [raised |-> FALSE, success |-> TRUE, nart |-> 1, new_tasks |-> <<>>]

\* One task proposed by the result of task c, by any other handler:
\*   - a subtask as MockVE builds it (fresh id, parent c);
\*   - the same with an id that collides with c's;
\*   - the same with a dependency on the task at the head of the queue.
Proposals(c, heap, queue, id) ==
    {MockTask(id, c.id, {}, c.needs_human, c.complex)}
    \cup {MockTask(c.id, c.id, {}, c.needs_human, c.complex)}
    \cup (IF queue = <<>> THEN {}
          ELSE {MockTask(id, c.id, {heap[Head(queue)].id}, c.needs_human, c.complex)})

\* The new_tasks lists a TaskResult of any other handler can carry
RECURSIVE NewTaskLists(_, _, _, _, _)
NewTaskLists(c, heap, queue, id, n) ==
    IF n = 0 \/ Len(heap) + (id - FreshId(heap)) >= MaxTasks THEN {<<>>}
    ELSE {<<>>} \cup
         {<<p>> \o rest : p \in Proposals(c, heap, queue, id),
                          rest \in NewTaskLists(c, heap, queue, id + 1, n - 1)}

\* Any other handler raises, or returns a TaskResult
AnyHandlerOutcomes(c, heap, queue) ==
    {[raised |-> TRUE, success |-> FALSE, nart |-> 0, new_tasks |-> <<>>]}
    \cup {[raised |-> FALSE, success |-> s, nart |-> n, new_tasks |-> nt] :
             s \in BOOLEAN, n \in 0..MaxArtifacts,
             nt \in NewTaskLists(c, heap, queue, FreshId(heap), MaxNew)}

\* handle_task_human / handle_task_automated, by isinstance(handler, MockUser)
HandlerOutcomes(h, c, heap, queue, ves, users) ==
    IF h.kind = "user"
    THEN IF users[h.index].mock THEN {MockUser_handle_task(c)}
         ELSE AnyHandlerOutcomes(c, heap, queue)
    ELSE IF ves[h.index].mock THEN {MockVE_execute_task(c, heap)}
         ELSE IF IsDecomposer(ves[h.index])
              THEN {Decomposer_execute_task(ves[h.index], c, heap)}
         ELSE AnyHandlerOutcomes(c, heap, queue)

----------------------------------------------------------------------------
(* MockProjectRuntime *)

\* initialize: the initial Situation
InitialSituation ==
    [current_task_count |-> 0, completed_tasks |-> 0, failed_tasks |-> 0,
     total_tokens_used |-> 0, execution_time |-> 0]

CountStatus(g, heap, status) ==
    Cardinality({tid \in DOMAIN g.tasks : heap[g.tasks[tid]].status = status})

\* update_situation adding the counts to the counters, as it does for tokens
update_situation_Accumulate(situation, g, heap, queue, now) ==
    [current_task_count |-> Len(queue),
     completed_tasks |-> situation.completed_tasks + CountStatus(g, heap, COMPLETED),
     failed_tasks |-> situation.failed_tasks + CountStatus(g, heap, FAILED),
     total_tokens_used |-> situation.total_tokens_used + TOKENS_PER_UPDATE,
     execution_time |-> now]

\* update_situation leaving the completed and failed counters as they were
update_situation_NoRecount(situation, g, heap, queue, now) ==
    [current_task_count |-> Len(queue),
     completed_tasks |-> situation.completed_tasks,
     failed_tasks |-> situation.failed_tasks,
     total_tokens_used |-> situation.total_tokens_used + TOKENS_PER_UPDATE,
     execution_time |-> now]

\* update_situation: recount from the graph, add the mock token usage
update_situation(situation, g, heap, queue, now) ==
    [current_task_count |-> Len(queue),
     completed_tasks |-> CountStatus(g, heap, COMPLETED),
     failed_tasks |-> CountStatus(g, heap, FAILED),
     total_tokens_used |-> situation.total_tokens_used + TOKENS_PER_UPDATE,
     execution_time |-> now]

\* should_continue
should_continue(situation, config, queue) ==
    IF situation = NoneObject THEN TRUE
    ELSE ~should_terminate(situation, config) /\ Len(queue) > 0

\* a rejected result leaving the task in flight
StatusAfterExecute_LeftInFlight(out) ==
    IF out.raised THEN FAILED
    ELSE IF verify_task_completion(out) THEN COMPLETED
    ELSE IN_PROGRESS

\* the status given without consulting the verifier
StatusAfterExecute_NoVerify(out) ==
    IF out.raised THEN FAILED ELSE COMPLETED

\* the status execute_task_loop gives the task after the handler call
StatusAfterExecute(out) ==
    IF out.raised THEN FAILED
    ELSE IF verify_task_completion(out) THEN COMPLETED
    ELSE FAILED

\* what the engine observed of the call, per task object
VerdictOf(out) ==
    IF out.raised THEN "raised"
    ELSE IF verify_task_completion(out) THEN "accepted"
    ELSE "rejected"

RECURSIVE Repeat(_, _)
Repeat(x, n) == IF n = 0 THEN <<>> ELSE <<x>> \o Repeat(x, n - 1)

\* decompose_initial_query: the three initial tasks; the first one's
\* description holds the query
InitialTaskList(q_review, q_complex) ==
    << MockTask(1, None, {}, q_review, q_complex),
       MockTask(2, None, {}, FALSE, FALSE),
       MockTask(3, None, {}, FALSE, TRUE) >>

\* RuntimeEngine.start up to the call of execute_task_loop:
\* initialize, decompose_initial_query, self.tasks.extend(initial_tasks)
Start ==
    /\ pc = "start"
    /\ \E q_review \in BOOLEAN, q_complex \in BOOLEAN :
        LET ts == InitialTaskList(q_review, q_complex)
        IN  /\ objs' = ts
            /\ execution_graph' = add_tasks(EmptyTree, 1, ts)
            /\ tasks' = [i \in 1..Len(ts) |-> i]
            /\ verdict' = [i \in 1..Len(ts) |-> "none"]
    /\ current_situation' = InitialSituation
    /\ pc' = "while"
    /\ UNCHANGED <<artifacts_generated, state_history, iteration, current_task,
                   handler, clock, stop_criteria, max_tree_depth, strategy, max_parallel_agents, ves_models,
                   expert_allowed, final_results>>
    /\ UNCHANGED conv_vars
    /\ UNCHANGED handlers_vars
    /\ UNCHANGED route_vars
    /\ UNCHANGED loop_vars

\* the loop condition without the iteration limit: while self.should_continue()
WhileCheck_NoIterationLimit ==
    /\ pc = "while"
    /\ IF should_continue(current_situation, stop_criteria, tasks)
       THEN /\ iteration' = iteration + 1
            /\ pc' = IF tasks = <<>> THEN "finalize" ELSE "dispatch"
       ELSE /\ iteration' = iteration
            /\ pc' = "finalize"
    /\ UNCHANGED <<objs, tasks, execution_graph, current_situation,
                   artifacts_generated, state_history, current_task, handler,
                   clock, stop_criteria, max_tree_depth, strategy, max_parallel_agents, ves_models,
                   expert_allowed, final_results, verdict>>
    /\ UNCHANGED conv_vars
    /\ UNCHANGED handlers_vars
    /\ UNCHANGED route_vars
    /\ UNCHANGED loop_vars

\* while self.should_continue() and iteration < max_iterations:
\*     iteration += 1; if not self.tasks: break
WhileCheck ==
    /\ pc = "while"
    /\ IF should_continue(current_situation, stop_criteria, tasks)
          /\ iteration < max_iterations
       THEN /\ iteration' = iteration + 1
            /\ pc' = IF tasks = <<>> THEN "finalize" ELSE "dispatch"
       ELSE /\ iteration' = iteration
            /\ pc' = "finalize"
    /\ UNCHANGED <<objs, tasks, execution_graph, current_situation,
                   artifacts_generated, state_history, current_task, handler,
                   clock, stop_criteria, max_tree_depth, strategy, max_parallel_agents, ves_models,
                   expert_allowed, final_results, verdict>>
    /\ UNCHANGED conv_vars
    /\ UNCHANGED handlers_vars
    /\ UNCHANGED route_vars
    /\ UNCHANGED loop_vars

\* the dispatch reading self.tasks[0] without popping it
Dispatch_NoPop ==
    /\ pc = "dispatch"
    /\ current_task' = Head(tasks)
    /\ objs' = update_status(objs, Head(tasks), IN_PROGRESS)
    /\ pc' = "route"
    /\ UNCHANGED <<tasks, execution_graph, current_situation, artifacts_generated,
                   state_history, iteration, handler, clock, stop_criteria,
                   max_tree_depth, strategy, max_parallel_agents, ves_models, expert_allowed, final_results,
                   verdict>>
    /\ UNCHANGED conv_vars
    /\ UNCHANGED handlers_vars
    /\ UNCHANGED route_vars
    /\ UNCHANGED loop_vars

\* the dispatch taking the task admitted last: self.tasks.pop()
Dispatch_PopLast ==
    /\ pc = "dispatch"
    /\ current_task' = tasks[Len(tasks)]
    /\ tasks' = SubSeq(tasks, 1, Len(tasks) - 1)
    /\ objs' = update_status(objs, tasks[Len(tasks)], IN_PROGRESS)
    /\ pc' = "route"
    /\ UNCHANGED <<execution_graph, current_situation, artifacts_generated,
                   state_history, iteration, handler, clock, stop_criteria,
                   max_tree_depth, strategy, max_parallel_agents, ves_models, expert_allowed, final_results,
                   verdict>>
    /\ UNCHANGED conv_vars
    /\ UNCHANGED handlers_vars
    /\ UNCHANGED route_vars
    /\ UNCHANGED loop_vars

\* current_task = self.tasks.pop(0); current_task.update_status(IN_PROGRESS)
Dispatch ==
    /\ pc = "dispatch"
    /\ current_task' = Head(tasks)
    /\ tasks' = Tail(tasks)
    /\ objs' = update_status(objs, Head(tasks), IN_PROGRESS)
    /\ pc' = "route"
    /\ UNCHANGED <<execution_graph, current_situation, artifacts_generated,
                   state_history, iteration, handler, clock, stop_criteria,
                   max_tree_depth, strategy, max_parallel_agents, ves_models, expert_allowed, final_results,
                   verdict>>
    /\ UNCHANGED conv_vars
    /\ UNCHANGED handlers_vars
    /\ UNCHANGED route_vars
    /\ UNCHANGED loop_vars

\* the routing step putting an unroutable task back in the queue
Route_Requeue ==
    /\ pc = "route"
    /\ LET h == route_task(objs[current_task], ves_models, expert_allowed)
       IN  /\ handler' = h
           /\ IF h = NoHandler
              THEN /\ objs' = update_status(objs, current_task, PENDING)
                   /\ tasks' = Append(tasks, current_task)
                   /\ verdict' = verdict
                   /\ pc' = "while"
              ELSE /\ UNCHANGED <<objs, verdict, tasks>>
                   /\ pc' = "execute"
    /\ UNCHANGED <<execution_graph, current_situation,
                   artifacts_generated, state_history, iteration, current_task,
                   clock, stop_criteria, max_tree_depth, strategy, max_parallel_agents, ves_models,
                   expert_allowed, final_results>>
    /\ UNCHANGED conv_vars
    /\ UNCHANGED handlers_vars
    /\ UNCHANGED route_vars
    /\ UNCHANGED loop_vars

\* handler = route_task(...); if not handler: update_status(FAILED); continue
Route ==
    /\ pc = "route"
    /\ LET h == route_task(objs[current_task], ves_models, expert_allowed)
       IN  /\ handler' = h
           /\ IF h = NoHandler
              THEN /\ objs' = update_status(objs, current_task, FAILED)
                   /\ verdict' = [verdict EXCEPT ![current_task] = "no_handler"]
                   /\ pc' = "while"
              ELSE /\ UNCHANGED <<objs, verdict>>
                   /\ pc' = "execute"
    /\ UNCHANGED <<tasks, execution_graph, current_situation,
                   artifacts_generated, state_history, iteration, current_task,
                   clock, stop_criteria, max_tree_depth, strategy, max_parallel_agents, ves_models,
                   expert_allowed, final_results>>
    /\ UNCHANGED conv_vars
    /\ UNCHANGED handlers_vars
    /\ UNCHANGED route_vars
    /\ UNCHANGED loop_vars

\* the try block merging the artifacts and the new tasks of every result that
\* was returned, before the verifier is asked
Execute_MergeAlways ==
    /\ pc = "execute"
    /\ \E out \in HandlerOutcomes(handler, objs[current_task], objs, tasks,
                                  ves_models, expert_allowed) :
        LET status == StatusAfterExecute(out)
            marked == update_status(objs, current_task, status)
            first == Len(objs) + 1
        IN  IF ~out.raised
            THEN /\ artifacts_generated' =
                       artifacts_generated \o Repeat(current_task, out.nart)
                 /\ tasks' = tasks \o [i \in 1..Len(out.new_tasks) |-> first + i - 1]
                 /\ objs' = marked \o out.new_tasks
                 /\ execution_graph' = add_tasks(execution_graph, first, out.new_tasks)
                 /\ verdict' = [verdict EXCEPT ![current_task] = VerdictOf(out)]
                                  \o Repeat("none", Len(out.new_tasks))
            ELSE /\ objs' = marked
                 /\ verdict' = [verdict EXCEPT ![current_task] = VerdictOf(out)]
                 /\ UNCHANGED <<artifacts_generated, tasks, execution_graph>>
    /\ \E d \in 0..1 : clock + d <= MaxClock /\ clock' = clock + d
    /\ pc' = "update"
    /\ UNCHANGED <<current_situation, state_history, iteration, current_task,
                   handler, stop_criteria, max_tree_depth, strategy, max_parallel_agents, ves_models,
                   expert_allowed, final_results>>
    /\ UNCHANGED conv_vars
    /\ UNCHANGED handlers_vars
    /\ UNCHANGED route_vars
    /\ UNCHANGED loop_vars

\* the try block: the handler call, the verification and what follows it
Execute ==
    /\ pc = "execute"
    /\ \E out \in HandlerOutcomes(handler, objs[current_task], objs, tasks,
                                  ves_models, expert_allowed) :
        LET status == StatusAfterExecute(out)
            marked == update_status(objs, current_task, status)
            first == Len(objs) + 1
        IN  IF status = COMPLETED
            THEN /\ artifacts_generated' =
                       artifacts_generated \o Repeat(current_task, out.nart)
                 /\ tasks' = tasks \o [i \in 1..Len(out.new_tasks) |-> first + i - 1]
                 /\ objs' = marked \o out.new_tasks
                 /\ execution_graph' = add_tasks(execution_graph, first, out.new_tasks)
                 /\ verdict' = [verdict EXCEPT ![current_task] = VerdictOf(out)]
                                  \o Repeat("none", Len(out.new_tasks))
            ELSE /\ objs' = marked
                 /\ verdict' = [verdict EXCEPT ![current_task] = VerdictOf(out)]
                 /\ UNCHANGED <<artifacts_generated, tasks, execution_graph>>
    /\ \E d \in 0..1 : clock + d <= MaxClock /\ clock' = clock + d
    /\ pc' = "update"
    /\ UNCHANGED <<current_situation, state_history, iteration, current_task,
                   handler, stop_criteria, max_tree_depth, strategy, max_parallel_agents, ves_models,
                   expert_allowed, final_results>>
    /\ UNCHANGED conv_vars
    /\ UNCHANGED handlers_vars
    /\ UNCHANGED route_vars
    /\ UNCHANGED loop_vars

\* the end of the iteration leaving the loop when a task has failed
UpdateAndDetect_AbortOnFailure ==
    /\ pc = "update"
    /\ LET s == update_situation(current_situation, execution_graph, objs, tasks, clock)
           snapshot == [task_count |-> Len(tasks), completed |-> s.completed_tasks,
                        failed |-> s.failed_tasks]
           h == record_state(state_history, snapshot)
       IN  /\ current_situation' = s
           /\ state_history' = h
           /\ pc' = IF is_loop_detected(h) \/ s.failed_tasks > 0
                    THEN "finalize" ELSE "while"
    /\ UNCHANGED <<objs, tasks, execution_graph, artifacts_generated, iteration,
                   current_task, handler, clock, stop_criteria, max_tree_depth,
                   strategy, max_parallel_agents, ves_models, expert_allowed,
                   final_results, verdict>>
    /\ UNCHANGED conv_vars
    /\ UNCHANGED handlers_vars
    /\ UNCHANGED route_vars
    /\ UNCHANGED loop_vars

\* self.update_situation(); record_state(snapshot); if is_loop_detected(): break
UpdateAndDetect ==
    /\ pc = "update"
    /\ LET s == update_situation(current_situation, execution_graph, objs, tasks, clock)
           snapshot == [task_count |-> Len(tasks), completed |-> s.completed_tasks,
                        failed |-> s.failed_tasks]
           h == record_state(state_history, snapshot)
       IN  /\ current_situation' = s
           /\ state_history' = h
           /\ pc' = IF is_loop_detected(h) THEN "finalize" ELSE "while"
    /\ UNCHANGED <<objs, tasks, execution_graph, artifacts_generated, iteration,
                   current_task, handler, clock, stop_criteria, max_tree_depth, strategy, max_parallel_agents,
                   ves_models, expert_allowed, final_results, verdict>>
    /\ UNCHANGED conv_vars
    /\ UNCHANGED handlers_vars
    /\ UNCHANGED route_vars
    /\ UNCHANGED loop_vars

\* finalize: the final report; get_tree_depth raises RecursionError on a cycle
Finalize ==
    /\ pc = "finalize"
    /\ LET depth == get_tree_depth(execution_graph, objs)
       IN  IF depth = -1
           THEN /\ pc' = "recursion_error"
                /\ final_results' = final_results
           ELSE /\ pc' = "done"
                /\ final_results' =
                     [success |-> TRUE,
                      total_tasks |-> Cardinality(DOMAIN execution_graph.tasks),
                      completed_tasks |-> current_situation.completed_tasks,
                      failed_tasks |-> current_situation.failed_tasks,
                      artifacts_generated |-> Len(artifacts_generated),
                      execution_time |-> current_situation.execution_time,
                      tree_depth |-> depth,
                      final_situation |-> current_situation]
    /\ UNCHANGED <<objs, tasks, execution_graph, current_situation,
                   artifacts_generated, state_history, iteration, current_task,
                   handler, clock, stop_criteria, max_tree_depth, strategy, max_parallel_agents, ves_models,
                   expert_allowed, verdict>>
    /\ UNCHANGED conv_vars
    /\ UNCHANGED handlers_vars
    /\ UNCHANGED route_vars
    /\ UNCHANGED loop_vars

----------------------------------------------------------------------------
(* MockConvergenceManager.should_terminate on its own *)

\* largest task count of a Situation handed to should_terminate
MaxCount == 2

\* no call of should_terminate on its own is under way
NoCall == [situation |-> NoneObject, runtime_config |-> NoneObject]

\* Situations around the limits the configurations below set
SituationInputs ==
    [current_task_count : 0..MaxCount, completed_tasks : 0..MaxCount,
     failed_tasks : {0}, total_tokens_used : {0, 999, 1000, 1001, 1000000, 1000001},
     execution_time : {0, 59, 60, 61, 3600, 3601}]

\* runtime_config dicts, with and without the two keys should_terminate reads
ConfigInputs ==
    { [token_limit |-> 1000, time_limit |-> 60],
      [token_limit |-> 1000],
      [time_limit |-> 60],
      [quality_threshold |-> 1] }

\* calls of should_terminate in a row on the same arguments
MaxCalls == 2

\* a call that charges itself to the Situation's token usage
ConvCall_ChargesCall ==
    /\ Len(cm_results) < MaxCalls
    /\ cm_out' = <<should_terminate(cm_in.situation, cm_in.runtime_config)>>
    /\ cm_results' = Append(cm_results, cm_out')
    /\ cm_in' = [cm_in EXCEPT !.situation.total_tokens_used = @ + 1]
    /\ UNCHANGED engine_vars
    /\ UNCHANGED loop_vars
    /\ UNCHANGED route_vars
    /\ UNCHANGED handlers_vars

\* one call, on the arguments cm_in: cm_out holds the values the call
\* returned, in order. The body reads its two arguments and assigns to
\* neither; MockConvergenceManager has no attribute.
ConvCall ==
    /\ Len(cm_results) < MaxCalls
    /\ cm_out' = <<should_terminate(cm_in.situation, cm_in.runtime_config)>>
    /\ cm_results' = Append(cm_results, cm_out')
    /\ UNCHANGED cm_in
    /\ UNCHANGED engine_vars
    /\ UNCHANGED loop_vars
    /\ UNCHANGED route_vars
    /\ UNCHANGED handlers_vars

\* no call on a loop detector of its own is under way
LoopIdle ==
    /\ ld_recorded = <<>>
    /\ ld_out = <<>>
    /\ ld_last_reset = <<>>

\* no call of a handler of models/handlers.py or of run_project is under way
HandlersIdle ==
    /\ human_call = NoneObject
    /\ tool_call = NoneObject
    /\ project_run = NoneObject

\* no call of route_task on its own is under way
RouteIdle ==
    /\ rt_in = NoneObject
    /\ rt_out = <<>>

EngineIdle ==
    /\ pc = "idle"
    /\ objs = <<>>
    /\ tasks = <<>>
    /\ execution_graph = EmptyTree
    /\ current_situation = NoneObject
    /\ artifacts_generated = <<>>
    /\ state_history = <<>>
    /\ iteration = 0
    /\ current_task = None
    /\ handler = NoHandler
    /\ clock = 0
    /\ stop_criteria = <<>>
    /\ ves_models = <<>>
    /\ expert_allowed = <<>>
    /\ max_tree_depth \in TreeDepthSet
    /\ strategy = "hybrid"
    /\ max_parallel_agents = 5
    /\ final_results = NoneObject
    /\ verdict = <<>>

InitConv ==
    /\ EngineIdle
    /\ cm_in \in [situation : SituationInputs, runtime_config : ConfigInputs]
    /\ cm_out = <<>>
    /\ cm_results = <<>>
    /\ LoopIdle
    /\ RouteIdle
    /\ HandlersIdle

NextConv == ConvCall

SpecConv == InitConv /\ [][NextConv]_vars

----------------------------------------------------------------------------
(* MockLoopDetector on its own *)

\* record_state calls between two resets
MaxRecords == 22
\* of these, calls that record the second of the two snapshots
MaxOther == 3

\* the snapshots recorded: the dicts execute_task_loop builds
SnapshotInputs ==
    << [task_count |-> 1, completed |-> 0, failed |-> 0],
       [task_count |-> 0, completed |-> 1, failed |-> 0] >>

\* record_state(state_snapshot)
RecordState ==
    /\ Len(ld_recorded) < MaxRecords
    /\ \E k \in 1..Len(SnapshotInputs) :
        /\ k = 2 => Count(ld_recorded, SnapshotInputs[2]) < MaxOther
        /\ state_history' = record_state(state_history, SnapshotInputs[k])
        /\ ld_recorded' = Append(ld_recorded, SnapshotInputs[k])
    /\ ld_out' = <<>>
    /\ UNCHANGED ld_last_reset
    /\ UNCHANGED engine_rest
    /\ UNCHANGED conv_vars
    /\ UNCHANGED handlers_vars
    /\ UNCHANGED route_vars

\* is_loop_detected()
IsLoopDetected ==
    /\ ld_out = <<>>
    /\ ld_out' = <<is_loop_detected(state_history)>>
    /\ UNCHANGED <<state_history, ld_recorded, ld_last_reset>>
    /\ UNCHANGED engine_rest
    /\ UNCHANGED conv_vars
    /\ UNCHANGED handlers_vars
    /\ UNCHANGED route_vars

\* a reset that keeps the latest entry
Reset_KeepLatest ==
    /\ state_history' = IF state_history = <<>> THEN <<>>
                        ELSE <<state_history[Len(state_history)]>>
    /\ ld_recorded' = <<>>
    /\ ld_out' = <<>>
    /\ ld_last_reset' = <<is_loop_detected(state_history)>>
    /\ UNCHANGED engine_rest
    /\ UNCHANGED conv_vars
    /\ UNCHANGED handlers_vars
    /\ UNCHANGED route_vars

\* reset(): self.state_history.clear()
Reset ==
    /\ state_history' = <<>>
    /\ ld_recorded' = <<>>
    /\ ld_out' = <<>>
    /\ ld_last_reset' = <<is_loop_detected(state_history)>>
    /\ UNCHANGED engine_rest
    /\ UNCHANGED conv_vars
    /\ UNCHANGED handlers_vars
    /\ UNCHANGED route_vars

\* MockLoopDetector(): an empty history
InitLoop ==
    /\ EngineIdle
    /\ LoopIdle
    /\ cm_in = NoCall
    /\ cm_out = <<>>
    /\ cm_results = <<>>
    /\ RouteIdle
    /\ HandlersIdle

NextLoop ==
    \/ RecordState
    \/ IsLoopDetected
    \/ Reset

SpecLoop == InitLoop /\ [][NextLoop]_vars

----------------------------------------------------------------------------
(* MockTaskRouter.route_task on its own *)

\* handlers of each kind in the lists handed to route_task
MaxPool == 2

\* protocols.py: TaskPriority
LOW == 1
NORMAL == 2
HIGH == 3
CRITICAL == 4

\* the sequences over S of length at most n
RECURSIVE SeqsUpTo(_, _)
SeqsUpTo(S, n) ==
    IF n = 0 THEN {<<>>}
    ELSE LET shorter == SeqsUpTo(S, n - 1)
         IN  shorter \cup {Append(q, x) : q \in shorter, x \in S}

\* tasks handed to route_task: a MockTask with its priority and with whether
\* its metadata asks for human review; needs_human is, as everywhere, whether
\* its description holds "review" or "critical"
TaskInputs ==
    { [id |-> 1, status |-> IN_PROGRESS, parent_task_id |-> None,
       dependencies |-> {}, needs_human |-> h, complex |-> FALSE,
       priority |-> p, review_requested |-> r] :
          h \in BOOLEAN, p \in {NORMAL, CRITICAL}, r \in BOOLEAN }

\* available_ves: MockVE objects, load_factor in tenths
VEInputs ==
    SeqsUpTo({VE(a, l, TRUE) : a \in BOOLEAN, l \in {2, 5, 9}}, MaxPool)

\* available_users: MockUser objects
UserInputs ==
    SeqsUpTo({User(a, TRUE) : a \in BOOLEAN}, MaxPool)

\* one call of route_task on the arguments rt_in
RouteCall ==
    /\ rt_out = <<>>
    /\ rt_out' = <<route_task(rt_in.task, rt_in.available_ves, rt_in.available_users)>>
    /\ UNCHANGED rt_in
    /\ UNCHANGED engine_vars
    /\ UNCHANGED conv_vars
    /\ UNCHANGED handlers_vars
    /\ UNCHANGED loop_vars

InitRoute ==
    /\ EngineIdle
    /\ LoopIdle
    /\ cm_in = NoCall
    /\ cm_out = <<>>
    /\ cm_results = <<>>
    /\ rt_in \in [task : TaskInputs, available_ves : VEInputs,
                  available_users : UserInputs]
    /\ rt_out = <<>>
    /\ HandlersIdle

NextRoute == RouteCall

SpecRoute == InitRoute /\ [][NextRoute]_vars

----------------------------------------------------------------------------
(* models/handlers.py: HumanTaskHandler.handle *)

\* largest timeout_seconds, and latest second at which the human responds
MaxTimeout == 11

\* time.sleep(5)
POLL_SLEEP == 5

\* the human never responds
NoResponse == -1

\* the rest of the state while only a handler of models/handlers.py or
\* run_project runs
OthersIdle ==
    /\ EngineIdle
    /\ LoopIdle
    /\ RouteIdle
    /\ cm_in = NoCall
    /\ cm_out = <<>>
    /\ cm_results = <<>>

others_vars == <<engine_vars, conv_vars, loop_vars, route_vars>>

\* a call of handle: the handler's config and callbacks, the second at
\* which a response becomes available to the poll callback, the seconds
\* elapsed since the call (now), and what the call returned or raised (out)
InitHuman ==
    /\ OthersIdle
    /\ tool_call = NoneObject
    /\ project_run = NoneObject
    /\ \E t \in 0..MaxTimeout, e \in BOOLEAN, ne \in BOOLEAN, nc \in BOOLEAN,
          pcb \in BOOLEAN, r \in {NoResponse} \cup 0..MaxTimeout :
        human_call = [pc |-> "notify",
                      timeout_seconds |-> t, escalation_enabled |-> e,
                      notification_enabled |-> ne,
                      notification_callback |-> nc, response_poll_callback |-> pcb,
                      respond_at |-> r,
                      now |-> 0, start_time |-> 0, notified |-> 0, out |-> <<>>]

\* if self.notification_callback: ...; start_time = time.time()
HumanNotify ==
    /\ human_call.pc = "notify"
    /\ human_call' = [human_call EXCEPT
            !.notified = IF human_call.notification_callback THEN 1 ELSE 0,
            !.start_time = human_call.now,
            !.pc = "while"]
    /\ UNCHANGED <<tool_call, project_run>>
    /\ UNCHANGED others_vars

\* while time.time() - start_time < timeout_seconds: poll, return a response
\* that is there, else go to sleep; the loop left, go to the timeout handling
HumanPoll ==
    /\ human_call.pc = "while"
    /\ IF human_call.now - human_call.start_time < human_call.timeout_seconds
       THEN IF /\ human_call.response_poll_callback
               /\ human_call.respond_at # NoResponse
               /\ human_call.respond_at <= human_call.now
            THEN human_call' = [human_call EXCEPT !.out = <<[kind |-> "response"]>>,
                                                  !.pc = "done"]
            ELSE human_call' = [human_call EXCEPT !.pc = "sleep"]
       ELSE human_call' = [human_call EXCEPT !.pc = "timeout"]
    /\ UNCHANGED <<tool_call, project_run>>
    /\ UNCHANGED others_vars

\* time.sleep(5)
HumanSleep ==
    /\ human_call.pc = "sleep"
    /\ human_call' = [human_call EXCEPT !.now = @ + POLL_SLEEP, !.pc = "while"]
    /\ UNCHANGED <<tool_call, project_run>>
    /\ UNCHANGED others_vars

\* the timeout handling raising whatever the configuration says
HumanTimeout_AlwaysRaise ==
    /\ human_call.pc = "timeout"
    /\ human_call' = [human_call EXCEPT !.out = <<[kind |-> "TimeoutError"]>>,
                                          !.pc = "done"]
    /\ UNCHANGED <<tool_call, project_run>>
    /\ UNCHANGED others_vars

\* if escalation_enabled: return f"TIMEOUT: ... within {timeout_seconds}s ..."
\* else: raise TimeoutError
HumanTimeout ==
    /\ human_call.pc = "timeout"
    /\ human_call' = [human_call EXCEPT
            !.out = IF human_call.escalation_enabled
                    THEN <<[kind |-> "TIMEOUT",
                            timeout_seconds |-> human_call.timeout_seconds]>>
                    ELSE <<[kind |-> "TimeoutError"]>>,
            !.pc = "done"]
    /\ UNCHANGED <<tool_call, project_run>>
    /\ UNCHANGED others_vars

NextHuman ==
    \/ HumanNotify
    \/ HumanPoll
    \/ HumanSleep
    \/ HumanTimeout

SpecHuman == InitHuman /\ [][NextHuman]_vars

----------------------------------------------------------------------------
(* models/handlers.py: ToolCallTaskHandler.handle *)

\* largest retry_attempts
MaxRetries == 5

\* what one call of tool_executor does: it returns, or raises an Exception
ExecutorOutcomes == {"ok", "ValueError", "ConnectionError"}

\* the attempt test true at the first failure
is_last_attempt_First(attempt, retry_attempts) == attempt = 0

\* attempt == self.config.retry_attempts - 1
is_last_attempt(attempt, retry_attempts) == attempt = retry_attempts - 1

\* a backoff growing by two seconds per attempt
backoff_Linear(attempt) == 2 * attempt

\* 2 ** attempt
backoff(attempt) == 2 ^ attempt

\* a call of handle: retry_attempts of the config, the loop variable, what
\* each call of tool_executor did, the seconds slept, and what the call
\* returned or raised (out)
InitTool ==
    /\ OthersIdle
    /\ human_call = NoneObject
    /\ project_run = NoneObject
    /\ \E n \in 0..MaxRetries :
        tool_call = [pc |-> "for", retry_attempts |-> n, attempt |-> 0,
                     results |-> <<>>, sleeps |-> <<>>, out |-> <<>>]

\* one round of `for attempt in range(retry_attempts)` up to the sleep:
\* call tool_executor; return str(result), or raise RuntimeError at the
\* last attempt, or go to sleep; the range exhausted, raise RuntimeError
ToolAttempt ==
    /\ tool_call.pc = "for"
    /\ IF tool_call.attempt < tool_call.retry_attempts
       THEN \E r \in ExecutorOutcomes :
              LET called == [tool_call EXCEPT !.results = Append(@, r)]
              IN  IF r = "ok"
                  THEN tool_call' = [called EXCEPT !.out = <<[kind |-> "result"]>>,
                                                   !.pc = "done"]
                  ELSE IF is_last_attempt(tool_call.attempt, tool_call.retry_attempts)
                  THEN tool_call' = [called EXCEPT
                          !.out = <<[kind |-> "RuntimeError",
                                     attempts |-> tool_call.retry_attempts,
                                     cause |-> r]>>,
                          !.pc = "done"]
                  ELSE tool_call' = [called EXCEPT !.pc = "sleep"]
       ELSE tool_call' = [tool_call EXCEPT
               !.out = <<[kind |-> "RuntimeError", attempts |-> 0, cause |-> "none"]>>,
               !.pc = "done"]
    /\ UNCHANGED <<human_call, project_run>>
    /\ UNCHANGED others_vars

\* time.sleep(2 ** attempt), and the next value of the loop variable
ToolSleep ==
    /\ tool_call.pc = "sleep"
    /\ tool_call' = [tool_call EXCEPT
            !.sleeps = Append(@, backoff(tool_call.attempt)),
            !.attempt = @ + 1,
            !.pc = "for"]
    /\ UNCHANGED <<human_call, project_run>>
    /\ UNCHANGED others_vars

NextTool ==
    \/ ToolAttempt
    \/ ToolSleep

SpecTool == InitTool /\ [][NextTool]_vars

----------------------------------------------------------------------------
(* project_runtime.py: run_project *)

\* tasks the queue of run_project holds at most: the orchestrator proposes
\* new tasks only up to it
MaxQueue == 3

\* the tasks the orchestrator proposes
TaskKinds == {"t1", "t2"}

\* a call of run_project: the local tasks, the task popped, and whether the
\* convergence manager, had it been asked, would say stop (stop_due); the
\* locals total_tasks_generated and total_tasks_completed are never read
InitProject ==
    /\ OthersIdle
    /\ human_call = NoneObject
    /\ tool_call = NoneObject
    /\ project_run = [pc |-> "start", tasks |-> <<>>, task |-> "none",
                      stop_due |-> FALSE]

\* r = orchestration_task_handler.handle(initial_task); tasks = convert(r)
ProjectStart ==
    /\ project_run.pc = "start"
    /\ \/ \E ts \in SeqsUpTo(TaskKinds, MaxQueue) :
             project_run' = [project_run EXCEPT !.tasks = ts, !.pc = "while"]
       \/ project_run' = [project_run EXCEPT !.pc = "raised"]
    /\ UNCHANGED <<human_call, tool_call>>
    /\ UNCHANGED others_vars

\* while tasks: task = tasks.pop(0); the loop left, the function returns
ProjectWhile ==
    /\ project_run.pc = "while"
    /\ IF project_run.tasks # <<>>
       THEN project_run' = [project_run EXCEPT !.task = Head(project_run.tasks),
                                               !.tasks = Tail(@),
                                               !.pc = "handle"]
       ELSE project_run' = [project_run EXCEPT !.pc = "done"]
    /\ UNCHANGED <<human_call, tool_call>>
    /\ UNCHANGED others_vars

\* task_handler = task_assignment_handler.handle(task);
\* result = task_handler.handle(task);
\* convergence_manager.update_situation(result): a budget may now be reached
ProjectHandle ==
    /\ project_run.pc = "handle"
    /\ \/ \E due \in BOOLEAN :
             project_run' = [project_run EXCEPT !.stop_due = @ \/ due,
                                                !.pc = "generate"]
       \/ project_run' = [project_run EXCEPT !.pc = "raised"]
    /\ UNCHANGED <<human_call, tool_call>>
    /\ UNCHANGED others_vars

\* new_tasks = convert(orchestration_task_handler.handle(...));
\* tasks.extend(new_tasks)
ProjectGenerate ==
    /\ project_run.pc = "generate"
    /\ \/ \E new \in SeqsUpTo(TaskKinds, MaxQueue - Len(project_run.tasks)) :
             project_run' = [project_run EXCEPT !.tasks = @ \o new, !.pc = "while"]
       \/ project_run' = [project_run EXCEPT !.pc = "raised"]
    /\ UNCHANGED <<human_call, tool_call>>
    /\ UNCHANGED others_vars

NextProject ==
    \/ ProjectStart
    \/ ProjectWhile
    \/ ProjectHandle
    \/ ProjectGenerate

\* run_project is one thread of straight-line code: it keeps running
SpecProject == InitProject /\ [][NextProject]_vars /\ WF_vars(NextProject)

----------------------------------------------------------------------------
(* The engine *)

Init ==
    /\ pc = "start"
    /\ objs = <<>>
    /\ tasks = <<>>
    /\ execution_graph = EmptyTree
    /\ current_situation = NoneObject
    /\ artifacts_generated = <<>>
    /\ state_history = <<>>
    /\ iteration = 0
    /\ current_task = None
    /\ handler = NoHandler
    /\ clock = 0
    /\ \E sc \in Scenarios :
        /\ stop_criteria = sc.stop_criteria
        /\ ves_models = sc.ves_models
        /\ expert_allowed = sc.expert_allowed
        /\ strategy = sc.strategy
        /\ max_parallel_agents = sc.max_parallel_agents
    /\ max_tree_depth \in TreeDepthSet
    /\ final_results = NoneObject
    /\ verdict = <<>>
    /\ cm_in = NoCall
    /\ cm_out = <<>>
    /\ cm_results = <<>>
    /\ LoopIdle
    /\ RouteIdle
    /\ HandlersIdle

Next ==
    \/ Start
    \/ WhileCheck
    \/ Dispatch
    \/ Route
    \/ Execute
    \/ UpdateAndDetect
    \/ Finalize

Spec == Init /\ [][Next]_vars

\* the runs of main.py's demo: every handler is a MockVE or a MockUser
InitDemo ==
    /\ Init
    /\ \A i \in 1..Len(ves_models) : ves_models[i].mock
    /\ \A i \in 1..Len(expert_allowed) : expert_allowed[i].mock

SpecDemo == InitDemo /\ [][Next]_vars

\* the runs in which every handler is a MockVE, a MockUser or a decomposing
\* VE: every handler call returns, and completed tasks go on proposing tasks
InitLive ==
    /\ Init
    /\ \A i \in 1..Len(ves_models) : ves_models[i].mock \/ IsDecomposer(ves_models[i])
    /\ \A i \in 1..Len(expert_allowed) : expert_allowed[i].mock

\* a step of start up to the end of execute_task_loop
LoopStep ==
    \/ Start
    \/ WhileCheck
    \/ Dispatch
    \/ Route
    \/ Execute
    \/ UpdateAndDetect

\* start is one coroutine and every handler call returns, so the coroutine
\* always takes its next step
SpecLive == InitLive /\ [][Next]_vars /\ WF_vars(LoopStep)

\* the runs under the breadth-first strategy with five agents, every VE
\* being one that decomposes
InitBFS ==
    /\ Init
    /\ strategy = "bfs"
    /\ max_parallel_agents = 5
    /\ \A i \in 1..Len(ves_models) : IsDecomposer(ves_models[i])

SpecBFS == InitBFS /\ [][Next]_vars

\* the runs under the depth-first strategy, every VE being one that
\* decomposes
InitDFS ==
    /\ Init
    /\ strategy = "dfs"
    /\ ves_models # <<>>
    /\ \A i \in 1..Len(ves_models) : IsDecomposer(ves_models[i])

SpecDFS == InitDFS /\ [][Next]_vars

----------------------------------------------------------------------------
(* Properties *)

Terminal(status) == status \in {COMPLETED, FAILED, CANCELLED}

Refs == 1..Len(objs)

\* C1: once a task object is COMPLETED, FAILED or CANCELLED, no step of the
\* engine changes its status.
C1_TerminalIsFinal ==
    [][\A o \in Refs : Terminal(objs[o].status) => objs'[o].status = objs[o].status]_vars

\* a terminal task exists while the engine has dispatched a later one
C1_Witness ==
    \E o \in Refs, p \in Refs :
        /\ objs[o].status = COMPLETED
        /\ objs[p].status = IN_PROGRESS
        /\ pc = "execute"

\* C2: a task becomes COMPLETED only in the step of the try block in which
\* verify_task_completion has just accepted its result; a task whose result was
\* rejected, or whose handler raised, is not COMPLETED.
C2_CompletedOnlyWhenVerified ==
    /\ [](\A o \in Refs : verdict[o] \in {"rejected", "raised", "no_handler"}
                              => objs[o].status # COMPLETED)
    /\ [][\A o \in Refs :
            (objs[o].status # COMPLETED /\ objs'[o].status = COMPLETED)
                => (pc = "execute" /\ o = current_task /\ verdict[o] = "none"
                    /\ verdict'[o] = "accepted")]_vars

\* one task accepted and completed, one rejected, one whose handler raised
C2_Witness ==
    \E o \in Refs, p \in Refs, q \in Refs :
        /\ objs[o].status = COMPLETED /\ verdict[o] = "accepted"
        /\ objs[p].status = FAILED /\ verdict[p] = "rejected"
        /\ objs[q].status = FAILED /\ verdict[q] = "raised"

\* C3: no task is IN_PROGRESS (dispatched) while one of its dependencies is
\* not a COMPLETED task of the graph.
C3_DependenciesRespected ==
    \A o \in Refs :
        objs[o].status = IN_PROGRESS =>
            \A d \in objs[o].dependencies :
                /\ d \in DOMAIN execution_graph.tasks
                /\ objs[execution_graph.tasks[d]].status = COMPLETED

\* number of parent links from task_id up to a parentless task; more than
\* fuel links (a cycle) counts as fuel + 1
RECURSIVE ParentLinks(_, _)
ParentLinks(task_id, fuel) ==
    LET parent == objs[execution_graph.tasks[task_id]].parent_task_id
    IN  IF parent = None THEN 0
        ELSE IF fuel = 0 \/ parent \notin DOMAIN execution_graph.tasks THEN 1
        ELSE 1 + ParentLinks(parent, fuel - 1)

\* C4: every task of the graph that has a parent id has that parent in the
\* graph, and is at most max_tree_depth parent links below a root.
C4_ParentAndDepth ==
    \A tid \in DOMAIN execution_graph.tasks :
        LET t == objs[execution_graph.tasks[tid]]
        IN  /\ t.parent_task_id # None => t.parent_task_id \in DOMAIN execution_graph.tasks
            /\ ParentLinks(tid, Len(objs)) <= max_tree_depth

\* C5: the execution path never holds the same id twice (add_task rejects an
\* id that is already in the graph).
C5_NoDuplicateInPath ==
    \A i \in 1..Len(execution_graph.execution_path) :
        \A j \in 1..Len(execution_graph.execution_path) :
            i # j => execution_graph.execution_path[i] # execution_graph.execution_path[j]

\* C6: completed + failed + cancelled is at most the number of tasks admitted
\* to the graph, for the task objects, for the Situation's counters and for
\* the final report (whose total_tasks counts the graph's entries).
C6_TerminalAtMostAdmitted ==
    LET admitted == Len(execution_graph.execution_path)
    IN  /\ Cardinality({o \in Refs : Terminal(objs[o].status)}) <= admitted
        /\ current_situation # NoneObject =>
              /\ current_situation.completed_tasks + current_situation.failed_tasks
                    <= admitted
              /\ current_situation.completed_tasks + current_situation.failed_tasks
                    <= Cardinality(DOMAIN execution_graph.tasks)
        /\ final_results # NoneObject =>
              /\ final_results.completed_tasks + final_results.failed_tasks
                    <= final_results.total_tasks
              /\ final_results.total_tasks <= admitted

\* a finished run whose report counts every task of the graph as completed
\* or failed, at least one of each
C6_Witness ==
    /\ pc = "done"
    /\ final_results # NoneObject
    /\ final_results.completed_tasks > 0
    /\ final_results.failed_tasks > 0
    /\ final_results.completed_tasks + final_results.failed_tasks
          = final_results.total_tasks

Called == cm_out # <<>>

\* C7: should_terminate returns true whenever token usage >= the token budget
\* and whenever elapsed time >= the time budget.
C7_TerminatesAtBudget ==
    Called =>
        LET s == cm_in.situation
            token_limit == DictGet(cm_in.runtime_config, "token_limit", DEFAULT_TOKEN_LIMIT)
            time_limit == DictGet(cm_in.runtime_config, "time_limit", DEFAULT_TIME_LIMIT)
        IN  (s.total_tokens_used >= token_limit \/ s.execution_time >= time_limit)
                => cm_out[1] = TRUE

\* C8: should_terminate returns true when pending is 0 and a task has
\* completed, whatever the budgets; with tokens and time within budget it
\* returns false when pending is 0 and nothing has completed, and when
\* pending is greater than 0.
C8_QueueExhausted ==
    Called =>
        LET s == cm_in.situation
            token_limit == DictGet(cm_in.runtime_config, "token_limit", DEFAULT_TOKEN_LIMIT)
            time_limit == DictGet(cm_in.runtime_config, "time_limit", DEFAULT_TIME_LIMIT)
            within == s.total_tokens_used <= token_limit /\ s.execution_time <= time_limit
        IN  /\ (s.current_task_count = 0 /\ s.completed_tasks > 0) => cm_out[1] = TRUE
            /\ (within /\ s.current_task_count = 0 /\ s.completed_tasks = 0)
                  => cm_out[1] = FALSE
            /\ (within /\ s.current_task_count > 0) => cm_out[1] = FALSE

\* the boundary: pending = 0, completed = 1, budgets untouched, answer true
C8_Witness ==
    /\ Called
    /\ cm_in.situation.current_task_count = 0
    /\ cm_in.situation.completed_tasks = 1
    /\ cm_in.situation.total_tokens_used = 0
    /\ cm_in.situation.execution_time = 0
    /\ cm_out[1] = TRUE

StoppedOnIterationCount ==
    /\ pc \in {"finalize", "done", "recursion_error"}
    /\ should_continue(current_situation, stop_criteria, tasks)
    /\ ~is_loop_detected(state_history)

\* C10: the loop's iteration count never exceeds the max_iterations value the
\* stop criteria configure, and the loop does not stop on its iteration count
\* before that value is reached.
C10_StopsAtConfiguredIterations ==
    "max_iterations" \in DOMAIN stop_criteria =>
        /\ iteration <= stop_criteria["max_iterations"]
        /\ StoppedOnIterationCount => iteration >= stop_criteria["max_iterations"]

Window ==
    LET n == Len(ld_recorded)
        m == IF n < max_history THEN n ELSE max_history
    IN  [i \in 1..m |-> ld_recorded[n - m + i]]

\* C12: is_loop_detected returns true exactly when a snapshot has been
\* recorded and the most recently recorded one occurs more than twice among
\* the snapshots the buffer holds.
C12_LoopIffMoreThanTwice ==
    ld_out # <<>> =>
        ld_out[1] = (/\ Window # <<>>
                     /\ Count(Window, Window[Len(Window)]) > 2)

\* the same snapshot recorded for the third time, the answer is true
C12_Witness ==
    /\ ld_out = <<TRUE>>
    /\ Len(ld_recorded) > 3
    /\ Count(ld_recorded, ld_recorded[Len(ld_recorded)]) = 3

\* C13: after reset the buffer is empty and is_loop_detected returns false;
\* it returns true again only once some snapshot has been recorded at least
\* three times since the reset.
C13_ResetClears ==
    /\ ld_recorded = <<>> =>
          /\ state_history = <<>>
          /\ ~is_loop_detected(state_history)
          /\ ld_out \in {<<>>, <<FALSE>>}
    /\ (is_loop_detected(state_history) \/ ld_out = <<TRUE>>) =>
          \E i \in 1..Len(ld_recorded) : Count(ld_recorded, ld_recorded[i]) >= 3

\* reset was called on a detected loop; the same snapshot has been recorded
\* twice since, and the answer is still false
C13_Witness ==
    /\ ld_last_reset = <<TRUE>>
    /\ Len(ld_recorded) = 2
    /\ ld_recorded[1] = ld_recorded[2]
    /\ ld_out = <<FALSE>>

\* C14: the buffer holds the serialized forms of exactly the last
\* min(n, 20) snapshots recorded since the last reset, in recording order.
C14_BufferIsLastTwenty ==
    /\ Len(state_history) <= max_history
    /\ Len(state_history) = Len(Window)
    /\ \A i \in 1..Len(Window) : state_history[i] = state_str(Window[i])

\* two evictions have happened: the buffer is full and starts at the third
\* snapshot recorded, which differs from the first
C14_Witness ==
    /\ Len(ld_recorded) = max_history + 2
    /\ Len(state_history) = max_history
    /\ ld_recorded[1] # ld_recorded[3]
    /\ state_history[1] = state_str(ld_recorded[3])

\* the iteration that just ended found no handler for current_task
RoutingJustFailed ==
    /\ pc = "while"
    /\ current_task # None
    /\ verdict[current_task] = "no_handler"

\* C15: when route_task finds no handler, the step marks the task in hand
\* FAILED and no other, calls no handler (no artifact, no new task, no
\* verification), leaves the task out of the queue, and returns to the head
\* of the loop; from there the next queued task is dispatched, as long as the
\* loop's iteration limit is not reached.
C15_NoHandlerFailsAndContinues ==
    /\ [][(pc = "route"
            /\ route_task(objs[current_task], ves_models, expert_allowed) = NoHandler)
           => /\ objs' = update_status(objs, current_task, FAILED)
              /\ verdict'[current_task] = "no_handler"
              /\ tasks' = tasks
              /\ \A i \in 1..Len(tasks) : tasks[i] # current_task
              /\ artifacts_generated' = artifacts_generated
              /\ execution_graph' = execution_graph
              /\ pc' = "while"]_vars
    /\ [][(RoutingJustFailed /\ tasks # <<>> /\ iteration < max_iterations)
           => pc' = "dispatch"]_vars
    /\ [](\A o \in Refs : verdict[o] = "no_handler" => objs[o].status = FAILED)

\* a task failed for want of a handler, and a task queued behind it has
\* since been executed and accepted
C15_Witness ==
    \E o \in Refs, q \in Refs :
        /\ o < q
        /\ verdict[o] = "no_handler"
        /\ objs[o].status = FAILED
        /\ verdict[q] = "accepted"
        /\ objs[q].status = COMPLETED

Routed == rt_out # <<>>

\* C16: for a task whose priority is CRITICAL or whose metadata asks for
\* human review, route_task returns a human handler whenever an available
\* one is in the pool.
C16_HumanPreferred ==
    Routed =>
        LET t == rt_in.task
            users == rt_in.available_users
        IN  ((t.priority = CRITICAL \/ t.review_requested)
             /\ \E i \in 1..Len(users) : users[i].is_available)
                => rt_out[1].kind = "user"

\* C17: when no human preference applies and some virtual environment is
\* able to service the task, route_task returns an able one of the lowest
\* load, and among those of the lowest load the one declared first.
C17_LeastLoadedFirstDeclared ==
    Routed =>
        LET t == rt_in.task
            ves == rt_in.available_ves
            able == {i \in 1..Len(ves) : ve_can_handle_task(ves[i], t)}
            lowest == {i \in able : \A j \in able :
                                       ves[i].load_factor <= ves[j].load_factor}
        IN  (t.priority # CRITICAL /\ ~t.review_requested /\ ~t.needs_human
             /\ able # {})
                => /\ rt_out[1].kind = "ve"
                   /\ rt_out[1].index \in lowest
                   /\ \A j \in lowest : rt_out[1].index <= j

\* the tasks one level below the roots, and the roots
Children == {o \in Refs : objs[o].parent_task_id # None}

Roots == {o \in Refs : objs[o].parent_task_id = None}

\* C18: under "bfs" with max_parallel_agents = 5, once the roots are done
\* and the frontier is 5 sibling tasks, all 5 are IN_PROGRESS at once before
\* any of them is terminal; statuses only moving forward, no sibling can
\* then be terminal while another is still PENDING.
C18_FiveSiblingsInFlight ==
    (/\ strategy = "bfs"
     /\ max_parallel_agents = 5
     /\ Cardinality(Children) = 5
     /\ \A o \in Children, q \in Children :
            objs[o].parent_task_id = objs[q].parent_task_id
     /\ \A o \in Roots : Terminal(objs[o].status))
        => ((\E o \in Children : Terminal(objs[o].status))
                => \A o \in Children : objs[o].status # PENDING)

\* the tasks of the graph as many parent links from a root as task_id
Frontier(task_id) ==
    {u \in DOMAIN execution_graph.tasks :
        ParentLinks(u, Len(objs)) = ParentLinks(task_id, Len(objs))}

\* C19: under "bfs" a task produced by a task of a frontier is in the graph
\* and in the queue only once every task of that frontier is terminal.
C19_FrontierResolvedBeforeAdmission ==
    strategy = "bfs" =>
        \A tid \in DOMAIN execution_graph.tasks :
            LET parent == objs[execution_graph.tasks[tid]].parent_task_id
            IN  (parent # None /\ parent \in DOMAIN execution_graph.tasks)
                    => \A u \in Frontier(parent) :
                          Terminal(objs[execution_graph.tasks[u]].status)

InFlight == {o \in Refs : objs[o].status = IN_PROGRESS}

\* C20: in every state the number of IN_PROGRESS tasks is at most
\* max_parallel_agents.
C20_InFlightWithinBudget ==
    Cardinality(InFlight) <= max_parallel_agents

\* a run configured with one agent has one task in flight in its handler,
\* with tasks waiting behind it
C20_Witness ==
    /\ max_parallel_agents = 1
    /\ Cardinality(InFlight) = 1
    /\ pc = "execute"
    /\ tasks # <<>>

\* C21: under "dfs" the subtasks a completed task produced are dispatched
\* before every task that was waiting when their parent was dispatched: no
\* task is dispatched while a subtask created after it, by a task other
\* than its own parent, is still PENDING.
C21_SubtasksBeforeWaitingTasks ==
    (strategy = "dfs" /\ pc = "route") =>
        \A o \in Refs :
            (/\ objs[o].status = PENDING
             /\ o > current_task
             /\ objs[o].parent_task_id # None)
                => objs[o].parent_task_id = objs[current_task].parent_task_id

\* the run has ended
RunEnded == pc = "done"

\* the loop was left on a global termination decision: the convergence
\* manager said stop (budget, convergence) or the loop detector fired
GlobalStop ==
    /\ current_situation # NoneObject
    /\ \/ should_terminate(current_situation, stop_criteria)
       \/ is_loop_detected(state_history)

C23_ReportStatesReason ==
    RunEnded =>
        /\ "termination_reason" \in DOMAIN final_results
        /\ is_loop_detected(state_history)
              => final_results["termination_reason"] = "loop_detected"

\* the handler of current_task raised, or the verifier rejected its result
TaskJustFailed ==
    /\ current_task # None
    /\ verdict[current_task] \in {"raised", "rejected"}

\* C28: the step in which a task fails (its handler raises or its result is
\* rejected) makes that task FAILED and changes no other task, no artifact,
\* nothing of the graph and nothing of the queue; the iteration then ends
\* as any other, and as long as no termination criterion holds (convergence
\* manager, loop detector, iteration limit) the next queued task is
\* dispatched.
C28_TaskFailureIsLocal ==
    /\ [][(pc = "execute" /\ verdict'[current_task] \in {"raised", "rejected"})
           => /\ objs' = update_status(objs, current_task, FAILED)
              /\ artifacts_generated' = artifacts_generated
              /\ execution_graph' = execution_graph
              /\ tasks' = tasks
              /\ pc' = "update"]_vars
    /\ [][(pc = "update" /\ TaskJustFailed /\ ~is_loop_detected(state_history'))
           => pc' = "while"]_vars
    /\ [][(/\ pc = "while"
            /\ TaskJustFailed
            /\ ~should_terminate(current_situation, stop_criteria)
            /\ tasks # <<>>
            /\ iteration < max_iterations)
           => pc' = "dispatch"]_vars

\* a task completed with its artifact, the next one failed, and the one
\* after it has been dispatched
C28_Witness ==
    \E o \in Refs, p \in Refs, q \in Refs :
        /\ o < p /\ p < q
        /\ verdict[o] = "accepted" /\ objs[o].status = COMPLETED
        /\ verdict[p] \in {"raised", "rejected"} /\ objs[p].status = FAILED
        /\ objs[q].status = IN_PROGRESS
        /\ artifacts_generated # <<>>

\* C30: when the run ends, the completed and failed counts of the Situation
\* and of the final report are the numbers of COMPLETED and FAILED tasks of
\* the graph; stated for the runs in which no id was admitted twice.
C30_CountsMatchGraph ==
    (RunEnded /\ C5_NoDuplicateInPath) =>
        /\ current_situation.completed_tasks
              = CountStatus(execution_graph, objs, COMPLETED)
        /\ current_situation.failed_tasks
              = CountStatus(execution_graph, objs, FAILED)
        /\ final_results.completed_tasks
              = CountStatus(execution_graph, objs, COMPLETED)
        /\ final_results.failed_tasks
              = CountStatus(execution_graph, objs, FAILED)

HumanDone == human_call # NoneObject /\ human_call.pc = "done"

C25_BlocksAtMostTimeout ==
    HumanDone => human_call.now <= human_call.timeout_seconds

ToolDone == tool_call.pc = "done"

\* the calls of tool_executor that raised
FailedCalls == {i \in 1..Len(tool_call.results) : tool_call.results[i] # "ok"}

\* C26: tool_executor is called at most retry_attempts times; a call that
\* succeeds is the last one, and handle returns its result; handle raises
\* RuntimeError exactly when retry_attempts calls were made and all failed.
C26_BoundedRetry ==
    /\ Len(tool_call.results) <= tool_call.retry_attempts
    /\ \A i \in 1..Len(tool_call.results) :
          tool_call.results[i] = "ok" => (i = Len(tool_call.results) /\ ToolDone)
    /\ ToolDone =>
          /\ tool_call.out[1].kind \in {"result", "RuntimeError"}
          /\ tool_call.out[1].kind = "result"
                <=> (/\ tool_call.results # <<>>
                     /\ tool_call.results[Len(tool_call.results)] = "ok")
          /\ tool_call.out[1].kind = "RuntimeError"
                <=> (/\ Len(tool_call.results) = tool_call.retry_attempts
                     /\ Cardinality(FailedCalls) = tool_call.retry_attempts)

\* three attempts: two calls failed, the third succeeded and was returned
C26_Witness ==
    /\ ToolDone
    /\ tool_call.retry_attempts = 3
    /\ tool_call.results = <<"ValueError", "ConnectionError", "ok">>
    /\ tool_call.out = <<[kind |-> "result"]>>

\* C27: the handler has slept once after each failed call that was not the
\* last attempt and at no other time, 1 second the first time and twice the
\* time before each next time, so 2^k after the failure of attempt k.
C27_ExponentialBackoff ==
    LET slept == Len(tool_call.sleeps)
        due == Cardinality({i \in FailedCalls : i < tool_call.retry_attempts})
    IN  /\ slept = IF tool_call.pc = "sleep" THEN due - 1 ELSE due
        /\ tool_call.pc = "for" => slept = tool_call.attempt
        /\ \A k \in 1..slept :
              tool_call.sleeps[k] = IF k = 1 THEN 1 ELSE 2 * tool_call.sleeps[k - 1]

\* four attempts all failed: the handler slept 1, 2 and 4 seconds and not
\* after the last failure
C27_Witness ==
    /\ ToolDone
    /\ tool_call.retry_attempts = 4
    /\ Cardinality(FailedCalls) = 4
    /\ tool_call.sleeps = <<1, 2, 4>>
    /\ tool_call.out[1].kind = "RuntimeError"

\* run_project has returned, or an exception has left it
ProjectEnded == project_run.pc \in {"done", "raised"}

\* C29: every run of run_project eventually ends, and once the convergence
\* manager would say stop the run ends, whatever the orchestrator proposes.
C29_RunProjectTerminates ==
    /\ <>ProjectEnded
    /\ [](project_run.stop_due => <>ProjectEnded)

\* C31: a task is IN_PROGRESS only while it is the task the engine is
\* executing on a handler that route_task has selected for it; a task that
\* routing finds no handler for is never IN_PROGRESS.
C31_InProgressOnlyWhenRouted ==
    \A o \in Refs :
        objs[o].status = IN_PROGRESS =>
            /\ pc = "execute"
            /\ o = current_task
            /\ handler # NoHandler

\* the tasks that own an entry of artifacts_generated
ArtifactOwners == {artifacts_generated[i] : i \in 1..Len(artifacts_generated)}

\* a step of the loop that merges artifacts, admits a task or enqueues one
MergesOrAdmits ==
    \/ artifacts_generated' # artifacts_generated
    \/ execution_graph' # execution_graph
    \/ Len(objs') # Len(objs)
    \/ tasks' \notin {tasks} \cup (IF tasks = <<>> THEN {} ELSE {Tail(tasks)})

\* C32: the artifact list holds the artifacts of the COMPLETED tasks and of no
\* other, appended task by task as each completes; artifacts are merged, and
\* tasks are added to the graph and the queue, only in the step in which the
\* verifier accepts the current task's result, never for a rejected result
\* or a handler that raised.
C32_MergeOnlyAccepted ==
    /\ [](ArtifactOwners = {o \in Refs : objs[o].status = COMPLETED})
    /\ [](\A o \in ArtifactOwners : verdict[o] = "accepted")
    /\ [][(pc # "start" /\ MergesOrAdmits) =>
            /\ pc = "execute"
            /\ verdict'[current_task] = "accepted"
            /\ objs'[current_task].status = COMPLETED
            /\ \E n \in 1..Len(artifacts_generated') :
                  artifacts_generated' =
                      artifacts_generated \o Repeat(current_task, n)]_vars

\* one result accepted and merged with a subtask admitted, one rejected, one
\* handler that raised
C32_Witness ==
    \E o \in Refs, p \in Refs, q \in Refs :
        /\ verdict[o] = "accepted" /\ o \in ArtifactOwners
        /\ verdict[p] = "rejected"
        /\ verdict[q] = "raised"
        /\ Len(objs) > 3
        /\ ArtifactOwners = {o}

\* the handler invocations the engine has made for task object o, given the
\* verdicts v: Execute calls the handler once and records what it saw
HandlerCalls(v, o) ==
    IF v[o] \in {"accepted", "rejected", "raised"} THEN 1 ELSE 0

\* C33: a task becomes FAILED on a handler exception only when the handler has
\* been invoked for it as many times as the retry policy allows
\* (VESettings.retry_attempts); one exception with attempts left does not
\* make it FAILED.
C33_RetryBeforeFailed ==
    [][\A o \in Refs :
          (objs[o].status # FAILED /\ objs'[o].status = FAILED
              /\ verdict'[o] = "raised")
            => HandlerCalls(verdict', o) >= ve_retry_attempts]_vars

\* the ids parent_child lists under parent id p
ListedChildren(p) == DictGet(execution_graph.parent_child, p, <<>>)

\* C34: parent_child lists c under p exactly when task c is in the graph with
\* parent id p, and lists it once; no task of the graph is its own ancestor;
\* get_tree_depth returns on the graph (-1 stands for its RecursionError).
C34_AdjacencyConsistentAcyclic ==
    /\ \A p \in DOMAIN execution_graph.parent_child :
          \A i \in 1..Len(ListedChildren(p)) :
              LET c == ListedChildren(p)[i]
              IN  /\ c \in DOMAIN execution_graph.tasks
                  /\ objs[execution_graph.tasks[c]].parent_task_id = p
    /\ \A c \in DOMAIN execution_graph.tasks :
          LET p == objs[execution_graph.tasks[c]].parent_task_id
          IN  p # None => Count(ListedChildren(p), c) = 1
    /\ \A c \in DOMAIN execution_graph.tasks : ParentLinks(c, Len(objs)) <= Len(objs)
    /\ get_tree_depth(execution_graph, objs) # -1

\* the poll callback would yield a response at some second before
\* timeout_seconds have elapsed since the call
RespondsWithinTimeout ==
    /\ human_call.response_poll_callback
    /\ human_call.respond_at # NoResponse
    /\ human_call.respond_at < human_call.timeout_seconds

\* C35: a call of handle during which the human responds within the timeout
\* period returns the response; it does not end on the timeout path.
C35_ResponseWithinTimeoutReturned ==
    (HumanDone /\ RespondsWithinTimeout) => human_call.out[1].kind = "response"

\* C36: with notification_enabled (and a notification callback) handle has
\* notified the human once by the time it starts polling, and not again;
\* with notification_enabled false it sends no notification.
C36_NotifiesOnceIfEnabled ==
    human_call # NoneObject =>
        /\ ~human_call.notification_enabled => human_call.notified = 0
        /\ (human_call.notification_enabled /\ human_call.notification_callback
              /\ human_call.pc # "notify") => human_call.notified = 1

\* C37: in a run whose admitted tasks have pairwise distinct ids (they are
\* admitted PENDING), no two snapshots held by the loop detector are equal, so
\* is_loop_detected is false after every recording and the loop is never
\* left through the loop-detection break.
C37_SnapshotsDistinct ==
    [](C5_NoDuplicateInPath =>
        /\ \A i \in 1..Len(state_history) : \A j \in 1..Len(state_history) :
              i # j => state_history[i] # state_history[j]
        /\ ~is_loop_detected(state_history))

\* four snapshots recorded in a run without a duplicate id, in which a
\* subtask was admitted, a task completed and a task failed
C37_Witness ==
    /\ C5_NoDuplicateInPath
    /\ Len(state_history) >= 4
    /\ Len(objs) > 3
    /\ \E o \in Refs, p \in Refs :
          objs[o].status = COMPLETED /\ objs[p].status = FAILED
    /\ pc = "while"

\* the task objects the engine has dispatched: a dispatch takes a task out of
\* PENDING and nothing puts one back
Dispatched == {o \in Refs : objs[o].status # PENDING}

\* C38: in a run without a duplicate id, the tasks dispatched so far are the
\* first k tasks of the execution path, for some k, and the queue holds the
\* other tasks, once each, in the order of the path: tasks are dispatched in
\* the order they were admitted and none is dispatched twice.
C38_DispatchedIsPrefixOfPath ==
    [](C5_NoDuplicateInPath =>
        /\ Len(execution_graph.execution_path) = Len(objs)
        /\ \A o \in Refs : execution_graph.execution_path[o] = objs[o].id
        /\ \E k \in 0..Len(objs) :
              /\ Dispatched = 1..k
              /\ tasks = [i \in 1..(Len(objs) - k) |-> k + i])

\* a subtask is dispatched, after the initial tasks, while a later one waits
C38_Witness ==
    /\ C5_NoDuplicateInPath
    /\ pc = "route"
    /\ objs[current_task].parent_task_id # None
    /\ tasks # <<>>

\* execute_task_loop has been left
LoopLeft == pc \in {"finalize", "done", "recursion_error"}

C40_ArtifactsAtLeastCompleted ==
    [](/\ Len(artifacts_generated) >= Cardinality({o \in Refs : objs[o].status = COMPLETED})
       /\ Len(artifacts_generated) >= CountStatus(execution_graph, objs, COMPLETED))

\* two tasks completed with two artifacts merged, a third rejected by the
\* verifier
C40_Witness ==
    /\ Cardinality({o \in Refs : objs[o].status = COMPLETED}) = 2
    /\ Len(artifacts_generated) = 2
    /\ \E p \in Refs : verdict[p] = "rejected"

====
